---- MODULE Spec2Model ----
(***************************************************************************)
(* Model of pyqgiswps/executors/io/geometryio.py: the conversion of WPS    *)
(* inputs (WKT with optional CRS= prefix, GeoJSON, GML, bounding boxes)    *)
(* into the values handed to QGIS processing.                              *)
(*                                                                         *)
(* Strings are sequences of one-element symbols.  The symbols "C", "R",    *)
(* "S", "=", ";", " " and "\n" are the characters themselves; "E", "X",    *)
(* "P" and "G" each stand for a run of ordinary characters (no ";", no     *)
(* white space): "E" a definition of a valid CRS (EPSG:4326), "X" a        *)
(* definition of no CRS (NOT_A_CRS), "P" the text of a point, "G" the text *)
(* of a polygon.                                                           *)
(***************************************************************************)
EXTENDS Naturals, Integers, Sequences, FiniteSets, TLC

VARIABLES
    inp,      \* the WPS input a function is called with
    rest,     \* get_processing_value: the inputs that follow inp in the list
    param,    \* get_processing_value: the class of the processing parameter
    pc,       \* "ready", or the function that was called and has ended
    m,        \* the match object of WKT_EXPR, if the call made one
    result,   \* the value the call returned, or the exception it raised
    log       \* the functions and primitives the call went through, in order

vars == <<inp, rest, param, pc, m, result, log>>

-----------------------------------------------------------------------------
(* Bounds of the model *)

\* longest text after the optional white space and the optional CRS=
MaxLen == 4

\* longest payload of an input that is not declared as WKT
MaxPayload == 2

\* largest coordinate of a bounding box
MaxCoord == 2

-----------------------------------------------------------------------------
(* Strings *)

LF == "\n"

\* the characters of a text declared as WKT, and those of the other payloads
TailChars == {";", "E", "X", "P", LF}
PayloadChars == {"E", "X", "P", "G"}

CRS_EQ == <<"C", "R", "S", "=">>

RECURSIVE StringsUpTo(_, _)
StringsUpTo(A, n) ==
    IF n = 0 THEN {<<>>}
    ELSE LET S == StringsUpTo(A, n - 1)
         IN  S \cup {Append(s, c) : s \in {t \in S : Len(t) = n - 1}, c \in A}

\* s[a-1:b] of Python: empty when the range is empty, cut at the end of s
Slice(s, a, b) ==
    IF a > b \/ a > Len(s) THEN <<>>
    ELSE SubSeq(s, a, IF b > Len(s) THEN Len(s) ELSE b)

Max(S) == CHOOSE x \in S : \A y \in S : y <= x
Min(S) == CHOOSE x \in S : \A y \in S : x <= y

-----------------------------------------------------------------------------
(* The external primitives (osgeo.ogr, qgis.core), as far as the module uses *)
(* them.                                                                     *)

NullGeom == "null"

\* QgsGeometry.fromWkt(text): the geometry the text constructs, or the null geometry
QgsGeometry_fromWkt(text) ==
    IF Len(text) = 1 /\ text[1] \in {"P", "G"} THEN text[1] ELSE NullGeom

\* QgsCoordinateReferenceSystem(definition): always an object, valid or not
QgsCoordinateReferenceSystem(definition) ==
    [definition |-> definition, isValid |-> (definition = <<"E">>)]

\* ogr.CreateGeometryFromJson / ogr.CreateGeometryFromGML: an OGR geometry with
\* its spatial reference (or none), or None when the parser rejects the payload
OgrNone == [geom |-> "None", srs |-> <<>>]

ogr_CreateGeometry(data) ==
    IF Len(data) = 1 /\ data[1] \in {"P", "G"}
    THEN [geom |-> data[1], srs |-> <<>>]
    ELSE IF Len(data) = 2 /\ data[1] \in {"E", "X"} /\ data[2] \in {"P", "G"}
    THEN [geom |-> data[2], srs |-> <<data[1]>>]
    ELSE OgrNone

\* geom.ExportToWkt() of an OGR geometry
ogr_ExportToWkt(g) == <<g.geom>>

\* g.centroid().asPoint()
Centroid(g) == IF g = "P" THEN <<1, 2>> ELSE IF g = "G" THEN <<3, 4>> ELSE <<0, 0>>

\* QgsRectangle(xMin, yMin, xMax, yMax): the constructor normalises
QgsRectangle(x1, y1, x2, y2) ==
    [xMinimum |-> IF x1 <= x2 THEN x1 ELSE x2,
     yMinimum |-> IF y1 <= y2 THEN y1 ELSE y2,
     xMaximum |-> IF x1 <= x2 THEN x2 ELSE x1,
     yMaximum |-> IF y1 <= y2 THEN y2 ELSE y1]

-----------------------------------------------------------------------------
(* Values and exceptions *)

NoCrs == [definition |-> <<>>, isValid |-> FALSE]
NoRect == QgsRectangle(0, 0, 0, 0)

Value(kind, geom, xy, rect, crs, exc, msg) ==
    [kind |-> kind, geom |-> geom, xy |-> xy, rect |-> rect, crs |-> crs,
     exc |-> exc, msg |-> msg]

None == Value("None", NullGeom, <<>>, NoRect, NoCrs, "", <<>>)
QgsGeometry(g) == Value("QgsGeometry", g, <<>>, NoRect, NoCrs, "", <<>>)
QgsReferencedGeometry(g, crs) ==
    Value("QgsReferencedGeometry", g, <<>>, NoRect, crs, "", <<>>)
QgsReferencedPointXY(xy, crs) ==
    Value("QgsReferencedPointXY", NullGeom, xy, NoRect, crs, "", <<>>)
QgsReferencedRectangle(rect, crs) ==
    Value("QgsReferencedRectangle", NullGeom, <<>>, rect, crs, "", <<>>)
Raise(exc, msg) == Value("raise", NullGeom, <<>>, NoRect, NoCrs, exc, msg)

InvalidParameterValue(msg) == Raise("InvalidParameterValue", msg)
NoApplicableCode(msg) == Raise("NoApplicableCode", msg)

\* what a function hands back: its value (or exception), the match object of
\* WKT_EXPR if it made one, and the primitives it called, in order
Ret(v, mo, l) == [ret |-> v, m |-> mo, log |-> l]

-----------------------------------------------------------------------------
(* WKT_EXPR: optional white space, an optional group "CRS=", any run of    *)
(* characters, ";" (group 1 is that run, greedy), then a lazy run of       *)
(* characters (group 2) up to the end anchor.  It is matched by            *)
(* backtracking as re.match does: each quantifier tries its alternatives   *)
(* in its own order of preference and the first complete match wins.       *)

\* \s
IsSpace(c) == c \in {" ", LF}

\* . (no DOTALL flag): any character but a line feed
Dot(c) == c # LF

DollarEndOnly(s, e) == e = Len(s)

\* $ (no MULTILINE flag) after e characters: at the end of the string, or just
\* before a line feed that ends the string
Dollar(s, e) == e = Len(s) \/ (e = Len(s) - 1 /\ s[Len(s)] = LF)

\* the leading \s* : the numbers of leading characters that \s* can consume
LeadingSpace(s) == {i \in 0..Len(s) : \A k \in 1..i : IsSpace(s[k])}

\* group 2 and the end anchor from position `from` on: where group 2 can end
Body(s, from) ==
    {e \in (from - 1)..Len(s) : (\A k \in from..e : Dot(s[k])) /\ Dollar(s, e)}

\* the CRS= group after i characters: the positions where group 1 can end with
\* the rest of the pattern still matching
CrsPrefix(s, i) ==
    IF i + 4 <= Len(s) /\ SubSeq(s, i + 1, i + 4) = CRS_EQ
    THEN {j \in (i + 4)..(Len(s) - 1) :
             /\ \A k \in (i + 5)..j : Dot(s[k])
             /\ s[j + 1] = ";"
             /\ Body(s, j + 2) # {}}
    ELSE {}

\* group 1 is greedy: the longest capture that lets the rest match
Group1EndLazy(S) == Min(S)
Group1End(S) == Max(S)

\* group 2 is lazy: the shortest capture after which $ matches
Group2End(S) == Min(S)

Unset == [made |-> FALSE, matched |-> FALSE, groups |-> <<<<>>, <<>>>>]
NoMatch == [made |-> TRUE, matched |-> FALSE, groups |-> <<<<>>, <<>>>>]
Match(g1, g2) == [made |-> TRUE, matched |-> TRUE, groups |-> <<g1, g2>>]

\* WKT_EXPR.match(s), with groups as m.groups('') gives them
WKT_EXPR_match(s) ==
    LET I == {i \in LeadingSpace(s) : CrsPrefix(s, i) # {} \/ Body(s, i + 1) # {}}
    IN  IF I = {} THEN NoMatch
        ELSE LET i == Max(I)
             IN  IF CrsPrefix(s, i) # {}
                 THEN LET j == Group1End(CrsPrefix(s, i))
                          e == Group2End(Body(s, j + 2))
                      IN  Match(Slice(s, i + 5, j), Slice(s, j + 2, e))
                 ELSE LET e == Group2End(Body(s, i + 1))
                      IN  Match(<<>>, Slice(s, i + 1, e))

-----------------------------------------------------------------------------
(* Inputs and parameters *)

\* the mime types are those of pyqgiswps.inout.formats.FORMATS; only their
\* being different matters here
FORMATS_WKT == "FORMATS.WKT.mime_type"
FORMATS_GEOJSON == "FORMATS.GEOJSON.mime_type"
FORMATS_GML == "FORMATS.GML.mime_type"
FORMATS_OTHER == "application/unknown"

MimeTypes == {FORMATS_WKT, FORMATS_GEOJSON, FORMATS_GML, FORMATS_OTHER}

ComplexInput(data, mime) ==
    [cls |-> "ComplexInput", data |-> data, mime_type |-> mime, crs |-> <<>>]
BoundingBoxInput(data, crs) ==
    [cls |-> "BoundingBoxInput", data |-> data, mime_type |-> "", crs |-> crs]

\* the texts declared as WKT: any text, alone or after CRS=, which may follow
\* white space
WktTexts ==
    {prefix \o tail :
        prefix \in {<<>>, CRS_EQ, <<" ">> \o CRS_EQ, <<LF>> \o CRS_EQ},
        tail \in StringsUpTo(TailChars, MaxLen)}

Payloads == StringsUpTo(PayloadChars, MaxPayload)

\* the payload of a bounding box is four numerals
Numerals == <<"0", "1", "2", "3", "4", "5", "6", "7", "8", "9">>

Coords == {Numerals[n + 1] : n \in 0..MaxCoord}

\* float(text) of a numeral
float(text) == CHOOSE n \in 0..(Len(Numerals) - 1) : Numerals[n + 1] = text

CrsStrings == {<<>>, <<"E">>, <<"X">>}

Inputs ==
    {ComplexInput(d, FORMATS_WKT) : d \in WktTexts}
    \cup {ComplexInput(d, mt) : d \in Payloads, mt \in MimeTypes \ {FORMATS_WKT}}
    \cup {BoundingBoxInput(d, c) : d \in [1..4 -> Coords], c \in CrsStrings}

\* the classes of processing parameters and what param.type() gives for each
ParamClasses ==
    {"QgsProcessingParameterGeometry", "QgsProcessingParameterPoint",
     "QgsProcessingParameterExtent", "QgsProcessingParameterNumber"}

ParamType(p) ==
    CASE p = "QgsProcessingParameterGeometry" -> "geometry"
      [] p = "QgsProcessingParameterPoint" -> "point"
      [] p = "QgsProcessingParameterExtent" -> "extent"
      [] OTHER -> "number"

-----------------------------------------------------------------------------
(* WPS inputs -> processing inputs data *)

wkt_to_goeometry_unchecked(wkt) ==
    LET mo == WKT_EXPR_match(wkt)
    IN  IF mo.matched
        THEN LET g == QgsGeometry_fromWkt(mo.groups[2])
                 crs == QgsCoordinateReferenceSystem(mo.groups[1])
             IN  IF g # NullGeom
                 THEN Ret(QgsReferencedGeometry(g, crs), mo,
                          <<"QgsGeometry.fromWkt", "QgsCoordinateReferenceSystem",
                            "QgsReferencedGeometry">>)
                 ELSE Ret(QgsGeometry(g), mo, <<"QgsGeometry.fromWkt">>)
        ELSE Ret(InvalidParameterValue(<<"Invalid wkt format">>), mo, <<>>)

wkt_to_goeometry_strict(wkt) ==
    LET mo == WKT_EXPR_match(wkt)
    IN  IF mo.matched
        THEN LET g == QgsGeometry_fromWkt(mo.groups[2])
                 crs == QgsCoordinateReferenceSystem(mo.groups[1])
             IN  IF g # NullGeom
                 THEN IF crs.isValid
                      THEN Ret(QgsReferencedGeometry(g, crs), mo,
                               <<"QgsGeometry.fromWkt", "QgsCoordinateReferenceSystem",
                                 "crs.isValid:True", "QgsReferencedGeometry">>)
                      ELSE Ret(InvalidParameterValue(<<"Invalid wkt format">>), mo,
                               <<"QgsGeometry.fromWkt", "QgsCoordinateReferenceSystem",
                                 "crs.isValid:False">>)
                 ELSE Ret(QgsGeometry(g), mo, <<"QgsGeometry.fromWkt">>)
        ELSE Ret(InvalidParameterValue(<<"Invalid wkt format">>), mo, <<>>)

\* wkt_to_goeometry(wkt): a null geometry is returned as it is, the exception
\* is raised only when the pattern does not match
wkt_to_goeometry(wkt) ==
    LET mo == WKT_EXPR_match(wkt)
    IN  IF mo.matched
        THEN LET g == QgsGeometry_fromWkt(mo.groups[2])
                 crs == QgsCoordinateReferenceSystem(mo.groups[1])
             IN  IF g # NullGeom
                 THEN IF crs.isValid
                      THEN Ret(QgsReferencedGeometry(g, crs), mo,
                               <<"QgsGeometry.fromWkt", "QgsCoordinateReferenceSystem",
                                 "crs.isValid:True", "QgsReferencedGeometry">>)
                      ELSE Ret(QgsGeometry(g), mo,
                               <<"QgsGeometry.fromWkt", "QgsCoordinateReferenceSystem",
                                 "crs.isValid:False">>)
                 ELSE Ret(QgsGeometry(g), mo, <<"QgsGeometry.fromWkt">>)
        ELSE Ret(InvalidParameterValue(<<"Invalid wkt format">>), mo, <<>>)

\* the parser input_to_geometry calls for a mime type, and the name of the format
OgrParser(mime) ==
    IF mime = FORMATS_GEOJSON THEN "ogr.CreateGeometryFromJson"
    ELSE "ogr.CreateGeometryFromGML"

FormatName(mime) == IF mime = FORMATS_GEOJSON THEN "geojson" ELSE "gml"

\* lines 117-125: the parsed OGR geometry is exported to WKT and constructed
\* again; its spatial reference, if any, is exported to WKT, made a CRS with
\* QgsCoordinateReferenceSystem.fromWkt, and attached when that CRS is valid
Reconstruct(geom, parser) ==
    LET g == QgsGeometry_fromWkt(ogr_ExportToWkt(geom))
        crs == QgsCoordinateReferenceSystem(geom.srs)
        l == <<parser, "GetSpatialReference", "ExportToWkt", "QgsGeometry.fromWkt">>
    IN  IF geom.srs # <<>>
        THEN IF crs.isValid
             THEN Ret(QgsReferencedGeometry(g, crs), Unset,
                      l \o <<"QgsCoordinateReferenceSystem.fromWkt",
                             "crs.isValid:True", "QgsReferencedGeometry">>)
             ELSE Ret(QgsGeometry(g), Unset,
                      l \o <<"QgsCoordinateReferenceSystem.fromWkt",
                             "crs.isValid:False">>)
        ELSE Ret(QgsGeometry(g), Unset, l)

WithCall(name, r) == Ret(r.ret, r.m, <<name>> \o r.log)

input_to_geometry_fallthrough(i) ==
    IF i.mime_type = FORMATS_WKT
    THEN WithCall("input_to_geometry", wkt_to_goeometry(i.data))
    ELSE IF i.mime_type \in {FORMATS_GEOJSON, FORMATS_GML}
              /\ ogr_CreateGeometry(i.data) # OgrNone
    THEN WithCall("input_to_geometry",
                  Reconstruct(ogr_CreateGeometry(i.data), OgrParser(i.mime_type)))
    ELSE Ret(NoApplicableCode(<<"Unsupported data format: ", i.mime_type>>), Unset,
             <<"input_to_geometry">>)

input_to_geometry(i) ==
    IF i.mime_type = FORMATS_WKT
    THEN WithCall("input_to_geometry", wkt_to_goeometry(i.data))
    ELSE IF i.mime_type \in {FORMATS_GEOJSON, FORMATS_GML}
    THEN LET geom == ogr_CreateGeometry(i.data)
         IN  IF geom = OgrNone
             THEN Ret(InvalidParameterValue(
                          <<"Invalid ", FormatName(i.mime_type), " format">>),
                      Unset, <<"input_to_geometry", OgrParser(i.mime_type)>>)
             ELSE WithCall("input_to_geometry",
                           Reconstruct(geom, OgrParser(i.mime_type)))
    ELSE Ret(NoApplicableCode(<<"Unsupported data format: ", i.mime_type>>), Unset,
             <<"input_to_geometry">>)

input_to_point_nocrs(i) ==
    LET r == input_to_geometry(i)
    IN  IF r.ret.kind = "QgsReferencedGeometry"
        THEN Ret(QgsReferencedPointXY(Centroid(r.ret.geom), NoCrs), r.m,
                 <<"input_to_point">> \o r.log \o <<"centroid", "QgsReferencedPointXY">>)
        ELSE WithCall("input_to_point", r)

\* input_to_point(inp): only a referenced geometry is reduced to its centroid
input_to_point(i) ==
    LET r == input_to_geometry(i)
    IN  IF r.ret.kind = "QgsReferencedGeometry"
        THEN Ret(QgsReferencedPointXY(Centroid(r.ret.geom), r.ret.crs), r.m,
                 <<"input_to_point">> \o r.log \o <<"centroid", "QgsReferencedPointXY">>)
        ELSE WithCall("input_to_point", r)

input_to_extent_unordered(i) ==
    LET r == i.data
    IN  Ret(QgsReferencedRectangle(QgsRectangle(float(r[1]), float(r[2]),
                                                float(r[3]), float(r[4])),
                                   QgsCoordinateReferenceSystem(i.crs)),
            Unset,
            <<"input_to_extent", "QgsRectangle", "QgsCoordinateReferenceSystem",
              "QgsReferencedRectangle">>)

\* input_to_extent(inp): r[0], r[2], r[1], r[3] of the source are r[1], r[3],
\* r[2], r[4] here
input_to_extent(i) ==
    LET r == i.data
    IN  Ret(QgsReferencedRectangle(QgsRectangle(float(r[1]), float(r[3]),
                                                float(r[2]), float(r[4])),
                                   QgsCoordinateReferenceSystem(i.crs)),
            Unset,
            <<"input_to_extent", "QgsRectangle", "QgsCoordinateReferenceSystem",
              "QgsReferencedRectangle">>)

get_processing_value_swapped(p, inps) ==
    IF p = "QgsProcessingParameterGeometry" THEN input_to_point(inps[1])
    ELSE IF p = "QgsProcessingParameterPoint" THEN input_to_geometry(inps[1])
    ELSE IF ParamType(p) = "extent" THEN input_to_extent(inps[1])
    ELSE Ret(None, Unset, <<>>)

\* get_processing_value(param, inp, context): inp is the list of the inputs
\* given for the parameter, inp[0] of the source is inps[1] here
get_processing_value(p, inps) ==
    IF p = "QgsProcessingParameterGeometry" THEN input_to_geometry(inps[1])
    ELSE IF p = "QgsProcessingParameterPoint" THEN input_to_point(inps[1])
    ELSE IF ParamType(p) = "extent" THEN input_to_extent(inps[1])
    ELSE Ret(None, Unset, <<>>)

-----------------------------------------------------------------------------
(* The calls *)

\* a further input of the same class as i, to follow it in the list
Decoy(i) ==
    IF i.cls = "ComplexInput"
    THEN ComplexInput(CRS_EQ \o <<"E", ";", "G">>, FORMATS_WKT)
    ELSE BoundingBoxInput([k \in 1..4 |-> Numerals[MaxCoord + 1]], <<"E">>)

\* the inputs the excluded layer builds for a parameter (parse_input_definition):
\* a BoundingBoxInput for an extent, a ComplexInput for a geometry or a point
Accepts(p, i) ==
    CASE ParamType(p) = "extent" -> i.cls = "BoundingBoxInput"
      [] ParamType(p) \in {"geometry", "point"} -> i.cls = "ComplexInput"
      [] OTHER -> TRUE

Init ==
    /\ inp \in Inputs
    /\ rest = <<>>
    /\ param = "none"
    /\ pc = "ready"
    /\ m = Unset
    /\ result = None
    /\ log = <<>>

Returns(name, r) ==
    /\ pc' = name
    /\ m' = r.m
    /\ result' = r.ret
    /\ log' = r.log

Call_wkt_to_goeometry ==
    /\ pc = "ready"
    /\ inp.cls = "ComplexInput"
    /\ inp.mime_type = FORMATS_WKT
    /\ Returns("wkt_to_goeometry", wkt_to_goeometry(inp.data))
    /\ UNCHANGED <<inp, rest, param>>

Call_input_to_geometry ==
    /\ pc = "ready"
    /\ inp.cls = "ComplexInput"
    /\ Returns("input_to_geometry", input_to_geometry(inp))
    /\ UNCHANGED <<inp, rest, param>>

Call_input_to_point ==
    /\ pc = "ready"
    /\ inp.cls = "ComplexInput"
    /\ Returns("input_to_point", input_to_point(inp))
    /\ UNCHANGED <<inp, rest, param>>

Call_input_to_extent ==
    /\ pc = "ready"
    /\ inp.cls = "BoundingBoxInput"
    /\ Returns("input_to_extent", input_to_extent(inp))
    /\ UNCHANGED <<inp, rest, param>>

Call_get_processing_value ==
    /\ pc = "ready"
    /\ \E p \in ParamClasses, others \in {<<>>, <<Decoy(inp)>>} :
          /\ Accepts(p, inp)
          /\ param' = p
          /\ rest' = others
          /\ Returns("get_processing_value",
                     get_processing_value(p, <<inp>> \o others))
    /\ UNCHANGED inp

Next ==
    \/ Call_wkt_to_goeometry
    \/ Call_input_to_geometry
    \/ Call_input_to_point
    \/ Call_input_to_extent
    \/ Call_get_processing_value

Spec == Init /\ [][Next]_vars

TypeOK ==
    /\ inp \in Inputs
    /\ pc \in {"ready", "wkt_to_goeometry", "input_to_geometry", "input_to_point",
               "input_to_extent", "get_processing_value"}
    /\ param \in ParamClasses \cup {"none"}
    /\ result.kind \in {"None", "QgsGeometry", "QgsReferencedGeometry",
                        "QgsReferencedPointXY", "QgsReferencedRectangle", "raise"}

-----------------------------------------------------------------------------
(* What the properties below are stated with *)

InLog(e) == \E k \in 1..Len(log) : log[k] = e

IsRaise(exc) == result.kind = "raise" /\ result.exc = exc

WktCall == pc \in {"wkt_to_goeometry", "input_to_geometry"} /\ inp.mime_type = FORMATS_WKT

\* the number of white space characters a text begins with
LeadLen(s) == Max({i \in 0..Len(s) : \A k \in 1..i : s[k] \in {" ", LF}})

\* a text read without the pattern: what follows "CRS=" when the text is white
\* space, "CRS=", and a rest that holds a ";"
AfterCrsEq(s) == Slice(s, LeadLen(s) + 5, Len(s))

HasCrsPrefix(s) ==
    /\ Slice(s, LeadLen(s) + 1, LeadLen(s) + 4) = CRS_EQ
    /\ \E k \in 1..Len(AfterCrsEq(s)) : AfterCrsEq(s)[k] = ";"

FirstSemi(u) == Min({k \in 1..Len(u) : u[k] = ";"})
LastSemi(u) == Max({k \in 1..Len(u) : u[k] = ";"})

SplitAt(u, k) == <<Slice(u, 1, k - 1), Slice(u, k + 1, Len(u))>>

\* a line feed after the leading white space that is not the last character
InnerLineFeed(s) == \E k \in (LeadLen(s) + 1)..(Len(s) - 1) : s[k] = LF

-----------------------------------------------------------------------------
(* C1 *)

\* C1: a text declared as WKT whose body constructs no geometry (the null
\* geometry), with or without a CRS= prefix, makes wkt_to_goeometry and
\* input_to_geometry raise InvalidParameterValue; no value is returned.
C1_NullWktBodyRaises ==
    (WktCall /\ m.matched /\ QgsGeometry_fromWkt(m.groups[2]) = NullGeom)
        => IsRaise("InvalidParameterValue")

-----------------------------------------------------------------------------
(* C2 *)

\* C2: when input_to_geometry gives a geometry without CRS, of any type,
\* input_to_point gives a point without CRS at the centroid of that geometry,
\* never the geometry itself.
C2_UnreferencedGeometryReduced ==
    LET g == input_to_geometry(inp).ret
    IN  (pc = "input_to_point" /\ g.kind = "QgsGeometry" /\ g.geom # NullGeom)
            => /\ result.kind = "QgsPointXY"
               /\ result.xy = Centroid(g.geom)
               /\ result.crs = NoCrs

-----------------------------------------------------------------------------
(* C3 *)

\* the CRS specifier the input supplies: group 1 of the pattern for WKT, the
\* spatial reference of the parsed payload for GeoJSON and GML
Specifier ==
    IF inp.mime_type = FORMATS_WKT THEN m.groups[1]
    ELSE ogr_CreateGeometry(inp.data).srs

GeometryOrPointCall ==
    \/ pc \in {"input_to_geometry", "input_to_point"}
    \/ /\ pc = "get_processing_value"
       /\ ParamType(param) \in {"geometry", "point"}

\* C3: a value returned by input_to_geometry or input_to_point carries a CRS
\* if and only if a CRS specifier was supplied and the validity check of the
\* CRS built from it was made and succeeded; the CRS it carries is that one,
\* and no check of it failed.
C3_CrsIffValidated ==
    LET has == result.kind \in {"QgsReferencedGeometry", "QgsReferencedPointXY"}
    IN  (GeometryOrPointCall /\ result.kind # "raise")
            => /\ has <=> (Specifier # <<>> /\ InLog("crs.isValid:True"))
               /\ has => /\ result.crs.isValid
                         /\ result.crs.definition = Specifier
                         /\ ~InLog("crs.isValid:False")
               /\ ~has => result.crs = NoCrs

\* a specifier that names no CRS was supplied and the value came back without
C3_Witness ==
    /\ pc = "input_to_geometry"
    /\ inp.mime_type = FORMATS_GEOJSON
    /\ Specifier = <<"X">>
    /\ InLog("crs.isValid:False")
    /\ result.kind = "QgsGeometry"

-----------------------------------------------------------------------------
(* C4 *)

\* C4: input_to_extent on a payload (xmin, xmax, ymin, ymax) returns the
\* rectangle QgsRectangle(xmin, ymin, xmax, ymax), which spans [xmin, xmax] and
\* [ymin, ymax], with the CRS built from the declared CRS string; no validity
\* check is made and the result is a referenced rectangle whatever the string.
C4_ExtentReordered ==
    LET xmin == float(inp.data[1])
        xmax == float(inp.data[2])
        ymin == float(inp.data[3])
        ymax == float(inp.data[4])
    IN  pc = "input_to_extent"
            => /\ result.kind = "QgsReferencedRectangle"
               /\ result.rect = QgsRectangle(xmin, ymin, xmax, ymax)
               /\ (xmin <= xmax /\ ymin <= ymax)
                     => result.rect = [xMinimum |-> xmin, yMinimum |-> ymin,
                                       xMaximum |-> xmax, yMaximum |-> ymax]
               /\ result.crs.definition = inp.crs
               /\ ~InLog("crs.isValid:True") /\ ~InLog("crs.isValid:False")

\* an extent whose bounds tell the orders apart, with a CRS string that is invalid
C4_Witness ==
    /\ pc = "input_to_extent"
    /\ inp.data = <<"0", "2", "1", "2">>
    /\ inp.crs = <<"X">>
    /\ result.kind = "QgsReferencedRectangle"
    /\ ~result.crs.isValid

-----------------------------------------------------------------------------
(* C5 *)

\* C5: input_to_geometry raises NoApplicableCode, naming the format, exactly
\* when the declared mime type is none of WKT, GeoJSON, GML; and a GeoJSON or
\* GML payload the parser rejects raises InvalidParameterValue naming its
\* format, before anything is exported or constructed again.
C5_ErrorKindByMimeType ==
    pc = "input_to_geometry"
        => /\ IsRaise("NoApplicableCode")
                <=> inp.mime_type \notin {FORMATS_WKT, FORMATS_GEOJSON, FORMATS_GML}
           /\ IsRaise("NoApplicableCode")
                => result.msg = <<"Unsupported data format: ", inp.mime_type>>
           /\ (/\ inp.mime_type \in {FORMATS_GEOJSON, FORMATS_GML}
               /\ ogr_CreateGeometry(inp.data) = OgrNone)
                => /\ IsRaise("InvalidParameterValue")
                   /\ result.msg =
                         <<"Invalid ",
                           IF inp.mime_type = FORMATS_GEOJSON THEN "geojson" ELSE "gml",
                           " format">>
                   /\ ~InLog("ExportToWkt")
                   /\ ~InLog("QgsGeometry.fromWkt")

\* a GML payload the parser rejects
C5_Witness ==
    /\ pc = "input_to_geometry"
    /\ inp.mime_type = FORMATS_GML
    /\ inp.data = <<"X">>
    /\ IsRaise("InvalidParameterValue")

-----------------------------------------------------------------------------
(* C6 *)

-----------------------------------------------------------------------------
(* C7 *)

\* C7: when input_to_geometry gives a geometry with CRS c, input_to_point gives
\* the centroid of that geometry with exactly c; when input_to_geometry raises,
\* input_to_point raises the same exception; input_to_point succeeds exactly
\* when input_to_geometry does.
C7_PointFollowsGeometry ==
    LET g == input_to_geometry(inp).ret
    IN  pc = "input_to_point"
            => /\ g.kind = "QgsReferencedGeometry"
                    => /\ result.kind = "QgsReferencedPointXY"
                       /\ result.xy = Centroid(g.geom)
                       /\ result.crs = g.crs
               /\ g.kind = "raise" => result = g
               /\ result.kind = "raise" <=> g.kind = "raise"

\* the centroid of a polygon that carries a CRS
C7_Witness ==
    /\ pc = "input_to_point"
    /\ inp.mime_type = FORMATS_GEOJSON
    /\ inp.data = <<"E", "G">>
    /\ result.kind = "QgsReferencedPointXY"
    /\ result.xy = Centroid("G")
    /\ result.crs.definition = <<"E">>

-----------------------------------------------------------------------------
(* C8 *)

InvalidWktFormat == IsRaise("InvalidParameterValue") /\ result.msg = <<"Invalid wkt format">>

\* C8 as claimed: the pattern matches every string, line feeds in or after the
\* body included, so "Invalid wkt format" is never raised.
C8_PatternMatchesEveryString ==
    WktCall => (m.matched /\ ~InvalidWktFormat)

\* C8 as amended: the pattern matches a string exactly when no line feed
\* follows the leading white space other than as the last character; every
\* other string raises InvalidParameterValue("Invalid wkt format").
C8_MatchesUnlessInnerLineFeed ==
    WktCall => /\ m.matched <=> ~InnerLineFeed(inp.data)
               /\ InvalidWktFormat <=> InnerLineFeed(inp.data)

\* a line feed inside the body reaches the raise
C8_Witness ==
    /\ pc = "wkt_to_goeometry"
    /\ inp.data = <<"P", LF, "P">>
    /\ InvalidWktFormat

-----------------------------------------------------------------------------
(* C9 *)

\* C9 as claimed: in a text CRS=<spec>;<rest>, after white space or none, the
\* captured specifier is what stands between CRS= and the first ";" and the
\* body is everything after that first ";", also when the rest holds a ";".
C9_SpecifierEndsAtFirstSemicolon ==
    LET u == AfterCrsEq(inp.data)
    IN  (pc = "wkt_to_goeometry" /\ HasCrsPrefix(inp.data))
            => /\ m.matched
               /\ m.groups = SplitAt(u, FirstSemi(u))

\* C9 as amended: in such a text without line feed after CRS=, the captured
\* specifier is what stands between CRS= and the last ";" and the body is what
\* follows the last ";"; this is the split at the first ";" only when the text
\* holds a single ";".
C9_SpecifierEndsAtLastSemicolon ==
    LET u == AfterCrsEq(inp.data)
    IN  (/\ pc = "wkt_to_goeometry"
         /\ HasCrsPrefix(inp.data)
         /\ \A k \in 1..Len(u) : u[k] # LF)
            => /\ m.matched
               /\ m.groups = SplitAt(u, LastSemi(u))
               /\ m.groups = SplitAt(u, FirstSemi(u)) <=> FirstSemi(u) = LastSemi(u)

\* CRS=E;;P: the specifier captured is E; and the body is P
C9_Witness ==
    /\ pc = "wkt_to_goeometry"
    /\ inp.data = CRS_EQ \o <<"E", ";", ";", "P">>
    /\ m.groups = <<<<"E", ";">>, <<"P">>>>

-----------------------------------------------------------------------------
(* C10 *)

\* C10: get_processing_value chooses the conversion by the class of the
\* parameter alone: a geometry parameter gives what input_to_geometry gives for
\* the first input, a point parameter what input_to_point gives, an extent
\* parameter what input_to_extent gives, and any other parameter gives None,
\* with no conversion called and nothing raised.
C10_DispatchByParameterKind ==
    LET want == CASE ParamType(param) = "geometry" -> input_to_geometry(inp)
                  [] ParamType(param) = "point" -> input_to_point(inp)
                  [] ParamType(param) = "extent" -> input_to_extent(inp)
                  [] OTHER -> Ret(None, Unset, <<>>)
    IN  pc = "get_processing_value"
            => /\ result = want.ret
               /\ log = want.log
               /\ ParamType(param) \in {"geometry", "point", "extent"}
                     => log[1] = "input_to_" \o ParamType(param)
               /\ ParamType(param) \notin {"geometry", "point", "extent"}
                     => result = None /\ log = <<>>

\* a point parameter, given a list of two inputs, gives the point of the first
C10_Witness ==
    /\ pc = "get_processing_value"
    /\ param = "QgsProcessingParameterPoint"
    /\ Len(rest) = 1
    /\ inp.data = CRS_EQ \o <<"E", ";", "P">>
    /\ result.kind = "QgsReferencedPointXY"
    /\ result.xy = Centroid("P")

====
